---- MODULE Spec2Model ----
(***************************************************************************)
(* A model of the image converter backend (src-tauri/src/main.rs):         *)
(* background-colour parsing, alpha compositing for JPEG targets, output   *)
(* path derivation, the single-file and path-based conversions and the    *)
(* batch worker that reports progress events.                              *)
(*                                                                         *)
(* The module holds several specifications over one set of variables; a    *)
(* specification leaves the variables of the other parts at their initial *)
(* values.                                                                 *)
(***************************************************************************)
EXTENDS Integers, Sequences, FiniteSets, TLC

VARIABLES
    \* background-colour parsing (SpecColor)
    hexInput,      \* the characters of the string handed over as bg_color
    colorResult,   \* outcome of the parsing block for hexInput, or NoResult
    \* per-pixel blending (SpecBlend)
    srcPixel,      \* an RGBA pixel of rgba_img
    bgColor,       \* the RGB colour the background image is filled with
    outPixel,      \* the pixel of `background` after the blending loop body
    \* progress percentage (SpecProgress)
    pTotal,        \* job.files.len()
    pIdx,          \* the loop index i of the next file
    pProc,         \* progress carried by the last `processing` payloads
    pRes,          \* progress carried by the last result payloads
    \* one conversion at a time (SpecConvert)
    fs,            \* the filesystem: directories and files that exist
    opCount,       \* number of conversions requested so far
    lastOp,        \* the last conversion: its request, outcome and effects
    \* the batch job (SpecBatch)
    job,           \* the ConversionJob handed to convert_all_images
    cpc,           \* the caller of convert_all_images: its position
    callerRet,     \* what convert_all_images returned to its caller
    wpc,           \* the worker thread's position
    widx,          \* the worker's loop index
    wresult,       \* the result of the current file's conversion
    events,        \* the payloads delivered to the sink, in order
    attempts,      \* number of app.emit calls made (delivered or not)
    bfs            \* the filesystem the batch writes to

colorVars == <<hexInput, colorResult>>
blendVars == <<srcPixel, bgColor, outPixel>>
progVars  == <<pTotal, pIdx, pProc, pRes>>
convVars  == <<fs, opCount, lastOp>>
batchVars == <<job, cpc, callerRet, wpc, widx, wresult, events, attempts, bfs>>
vars == <<colorVars, blendVars, progVars, convVars, batchVars>>

\* What the actions of one part leave alone.
colorOthers == <<blendVars, progVars, convVars, batchVars>>
blendOthers == <<colorVars, progVars, convVars, batchVars>>
progOthers  == <<colorVars, blendVars, convVars, batchVars>>
convOthers  == <<colorVars, blendVars, progVars, batchVars>>
batchOthers == <<colorVars, blendVars, progVars, convVars>>

\* Option<T>: None is the empty sequence, Some(x) the one-element sequence.
None == <<>>
Some(x) == <<x>>
IsSome(o) == Len(o) = 1
Unwrap(o) == o[1]

----------------------------------------------------------------------------
(* Single-precision arithmetic.  A positive f32 is <<m, e>> standing for    *)
(* m * 2^e with 2^23 <= m < 2^24; zero is <<0, 0>>.  Every operation        *)
(* rounds to nearest, ties to even, as the hardware does.  Intermediate     *)
(* values are kept below 2^31.                                              *)

RECURSIVE Pow2(_)
Pow2(n) == IF n = 0 THEN 1 ELSE 2 * Pow2(n - 1)

MantBits == 24
MantMin == Pow2(MantBits - 1)
MantMax == Pow2(MantBits)

F32Zero == <<0, 0>>

\* Round the mantissa q up when the discarded part says so; renormalise when
\* the mantissa overflows to 2^24.
F32Round(q, e, up) ==
    IF ~up THEN <<q, e>>
    ELSE IF q + 1 = MantMax THEN <<MantMin, e + 1>>
    ELSE <<q + 1, e>>

\* Bring a non-zero integer mantissa below 2^23 up to the normal range (exact).
RECURSIVE F32Normalize(_, _)
F32Normalize(m, e) ==
    IF m = 0 THEN F32Zero
    ELSE IF m >= MantMin THEN <<m, e>>
    ELSE F32Normalize(2 * m, e - 1)

\* The quotient n / d of two positive integers below 2^23, correctly rounded:
\* binary long division down to 24 significant bits, then the remainder
\* decides the rounding.
RECURSIVE F32DivStep(_, _, _, _)
F32DivStep(q, r, d, e) ==
    IF q >= MantMin
    THEN F32Round(q, e, (2 * r > d) \/ (2 * r = d /\ q % 2 = 1))
    ELSE IF 2 * r >= d
         THEN F32DivStep(2 * q + 1, 2 * r - d, d, e - 1)
         ELSE F32DivStep(2 * q, 2 * r, d, e - 1)

F32DivInt(n, d) ==
    IF n = 0 THEN F32Zero ELSE F32DivStep(n \div d, n % d, d, 0)

\* Bit length of a positive integer.
RECURSIVE BitLen(_)
BitLen(n) == IF n = 0 THEN 0 ELSE 1 + BitLen(n \div 2)

\* x * c for an f32 x and an integer 0 <= c < 256 (c is exact as f32).  The
\* exact product m * c is held as H * 256 + L.
F32MulInt(x, c) ==
    IF x[1] = 0 \/ c = 0 THEN F32Zero
    ELSE LET m  == x[1]
             lo == (m % 256) * c
             H  == (m \div 256) * c + (lo \div 256)
             L  == lo % 256
             s  == BitLen(H) - 16
             q  == H * Pow2(8 - s) + (L \div Pow2(s))
             rem == L % Pow2(s)
         IN  IF s = 0 THEN <<q, x[2]>>
             ELSE F32Round(q, x[2] + s,
                           (2 * rem > Pow2(s)) \/ (2 * rem = Pow2(s) /\ q % 2 = 1))

\* 1.0 - a for an f32 0 <= a <= 1.
F32OneMinus(a) ==
    IF a[1] = 0 THEN <<MantMin, 1 - MantBits>>
    ELSE IF a[2] >= 1 - MantBits THEN F32Zero            \* a = 1.0
    ELSE IF a[2] = -MantBits THEN F32Normalize(MantMax - a[1], -MantBits)
    ELSE LET k   == (-MantBits) - a[2]                   \* a < 0.5
             mq  == a[1] \div Pow2(k)
             mr  == a[1] % Pow2(k)
             q   == MantMax - mq - 1
             fr  == Pow2(k) - mr                        \* fraction, of 2^k
         IN  IF k > 30 THEN <<MantMin, 1 - MantBits>>
             ELSE IF mr = 0 THEN <<MantMax - mq, -MantBits>>
             ELSE F32Round(q, -MantBits,
                           (2 * fr > Pow2(k)) \/ (2 * fr = Pow2(k) /\ q % 2 = 1))

\* x + y for f32 x, y >= 0: the smaller operand is aligned with three guard
\* bits and a sticky flag, the sum is cut back to 24 bits.
F32AddOrdered(x, y) ==
    LET d == x[2] - y[2]
        X == x[1] * 8
        Yq == IF d <= 3 THEN y[1] * Pow2(3 - d) ELSE y[1] \div Pow2(d - 3)
        sticky == d > 3 /\ y[1] % Pow2(d - 3) # 0
        S == X + Yq
        sh == IF S >= Pow2(MantBits + 3) THEN 4 ELSE 3
        q == S \div Pow2(sh)
        rem == S % Pow2(sh)
        half == Pow2(sh - 1)
    IN  IF d > MantBits + 1 THEN x
        ELSE F32Round(q, x[2] + sh - 3,
                      (rem > half) \/ (rem = half /\ (sticky \/ q % 2 = 1)))

F32Add(x, y) ==
    IF x[1] = 0 THEN y
    ELSE IF y[1] = 0 THEN x
    ELSE IF x[2] >= y[2] THEN F32AddOrdered(x, y) ELSE F32AddOrdered(y, x)

\* Truncation toward zero of a non-negative f32, as `as u32` and `as u8` do
\* before saturating.  The values of this model stay below 2^31.
F32Trunc(x) ==
    IF x[1] = 0 THEN 0
    ELSE IF x[2] >= 0 THEN x[1] * Pow2(IF x[2] > 7 THEN 7 ELSE x[2])
    ELSE IF -x[2] > 30 THEN 0
    ELSE x[1] \div Pow2(-x[2])

----------------------------------------------------------------------------
(* Progress percentage and per-channel blending.                           *)

Percent == 100
U8Max == 255

\* `as u8` saturates at 255.
SaturateU8(v) == IF v > U8Max THEN U8Max ELSE v

\* Mutant: the percentage rounded to the nearest integer, as `.round()` before
\* the cast would give.
ProgressRounded(i, total) == (2 * Percent * (i + 1) + total) \div (2 * total)

\* ((i + 1) as f32 / total_files as f32 * 100.0) as u32
Progress(i, total) ==
    F32Trunc(F32MulInt(F32DivInt(i + 1, total), Percent))

\* let alpha = pixel[3] as f32 / 255.0;
\* ((1.0 - alpha) * bg as f32 + alpha * src as f32) as u8
BlendChannel(alphaByte, bg, src) ==
    LET alpha == F32DivInt(alphaByte, U8Max)
    IN  SaturateU8(F32Trunc(F32Add(F32MulInt(F32OneMinus(alpha), bg),
                                   F32MulInt(alpha, src))))

----------------------------------------------------------------------------
(* Strings.  A string is a sequence of characters; len() and the slices of *)
(* the parsing code count bytes, so a string is turned into its UTF-8      *)
(* bytes first.  "U+00E9" is a character of two bytes.                     *)

TwoByteChar == "U+00E9"
LeadByte == "xC3"
ContByte == "xA9"

RECURSIVE Bytes(_)
Bytes(s) ==
    IF s = <<>> THEN <<>>
    ELSE (IF Head(s) = TwoByteChar THEN <<LeadByte, ContByte>> ELSE <<Head(s)>>)
         \o Bytes(Tail(s))

\* str::trim_start_matches('#'): every leading '#' is removed.
RECURSIVE TrimStartHash(_)
TrimStartHash(b) ==
    IF b # <<>> /\ Head(b) = "#" THEN TrimStartHash(Tail(b)) ELSE b

\* &s[lo..hi] panics unless lo <= hi <= len and both ends are on a character
\* boundary.
IsCharBoundary(b, i) == i = 0 \/ i = Len(b) \/ (i < Len(b) /\ b[i + 1] # ContByte)
SliceOk(b, lo, hi) == hi <= Len(b) /\ IsCharBoundary(b, lo) /\ IsCharBoundary(b, hi)
Slice(b, lo, hi) == SubSeq(b, lo + 1, hi)

HexDigits == <<"0", "1", "2", "3", "4", "5", "6", "7", "8", "9",
               "a", "b", "c", "d", "e", "f">>
UpperHexDigits == <<"A", "B", "C", "D", "E", "F">>
IsHexDigit(c) ==
    (\E i \in 1..Len(HexDigits) : HexDigits[i] = c)
    \/ (\E i \in 1..Len(UpperHexDigits) : UpperHexDigits[i] = c)
HexValue(c) ==
    IF \E i \in 1..Len(HexDigits) : HexDigits[i] = c
    THEN (CHOOSE i \in 1..Len(HexDigits) : HexDigits[i] = c) - 1
    ELSE (CHOOSE i \in 1..Len(UpperHexDigits) : UpperHexDigits[i] = c) + 9

\* u8::from_str_radix(src, 16): None stands for Err.  An unsigned type takes
\* one leading '+' (a lone sign is an error); every other byte must be a
\* digit; the value must fit a u8.
RECURSIVE RadixDigits(_, _)
RadixDigits(d, acc) ==
    IF d = <<>> THEN Some(acc)
    ELSE IF ~IsHexDigit(Head(d)) THEN None
    ELSE IF acc * 16 + HexValue(Head(d)) > U8Max THEN None
    ELSE RadixDigits(Tail(d), acc * 16 + HexValue(Head(d)))

U8FromStrRadix16(src) ==
    IF src = <<>> THEN None
    ELSE IF Len(src) = 1 /\ Head(src) \in {"+", "-"} THEN None
    ELSE IF Head(src) = "+" THEN RadixDigits(Tail(src), 0)
    ELSE RadixDigits(src, 0)

\* Results of the operations: Ok carries a value, Err a message; Panic is a
\* panic of the thread running the operation.
Ok(v) == [kind |-> "Ok", msg |-> "", val |-> Some(v)]
Err(m) == [kind |-> "Err", msg |-> m, val |-> None]
Panic == [kind |-> "Panic", msg |-> "", val |-> None]
NoResult == [kind |-> "None", msg |-> "", val |-> None]

\* One `u8::from_str_radix(&hex_clean[lo..hi], 16).map_err(..)?`
ColorByte(clean, lo, hi) ==
    IF ~SliceOk(clean, lo, hi) THEN Panic
    ELSE LET v == U8FromStrRadix16(Slice(clean, lo, hi))
         IN  IF IsSome(v) THEN Ok(Unwrap(v)) ELSE Err("Invalid hex color")

\* The `let rgb_color = if let Some(hex) = &bg_color {..} else { None }` block
\* of convert_image and of convert_image_from_path (the two are the same
\* text).  Ok carries the Option<[u8; 3]>.
ParseBgColor(bg_color) ==
    IF ~IsSome(bg_color) THEN Ok(None)
    ELSE LET hex == Bytes(Unwrap(bg_color))
             clean == TrimStartHash(hex)
             r == ColorByte(clean, 0, 2)
             g == ColorByte(clean, 2, 4)
             b == ColorByte(clean, 4, 6)
         IN  IF Len(hex) # 6 /\ Len(hex) # 7 THEN Err("Invalid hex color format")
             ELSE IF r.kind # "Ok" THEN r
             ELSE IF g.kind # "Ok" THEN g
             ELSE IF b.kind # "Ok" THEN b
             ELSE Ok(Some(<<Unwrap(r.val), Unwrap(g.val), Unwrap(b.val)>>))

----------------------------------------------------------------------------
(* Images, paths and the filesystem.                                       *)

\* A decoded image is its sequence of RGBA pixels <<r, g, b, a>> (to_rgba8).
\* rgba_img.pixels().any(|p| p[3] < 255)
HasAlphaPixels(pixels) == \E i \in 1..Len(pixels) : pixels[i][4] < U8Max

\* The three assignments to bg_pixel[0..2] of the blending loop; bg_pixel
\* holds the background colour when they start.
BlendPixel(p, color) ==
    <<BlendChannel(p[4], color[1], p[1]),
      BlendChannel(p[4], color[2], p[2]),
      BlendChannel(p[4], color[3], p[3])>>

\* The background image filled with `color`, then blended pixel by pixel.
Composite(pixels, color) == [i \in 1..Len(pixels) |-> BlendPixel(pixels[i], color)]

\* dyn_img.to_rgb8(): the alpha channel is dropped.
ToRgb8(pixels) ==
    [i \in 1..Len(pixels) |-> <<pixels[i][1], pixels[i][2], pixels[i][3]>>]

White == <<255, 255, 255>>

\* A path is its sequence of components, a component a sequence of
\* characters; an absolute path starts with the root component.
RootName == <<"/">>
ExtJpg == <<"j", "p", "g">>
ExtPng == <<"p", "n", "g">>
ExtWebp == <<"w", "e", "b", "p">>
ConvertedSuffix == <<"_", "c", "o", "n", "v", "e", "r", "t", "e", "d">>
ImageConverterDir ==
    <<"I", "m", "a", "g", "e", "C", "o", "n", "v", "e", "r", "t", "e", "r">>

\* Path::file_name
FileName(path) ==
    IF path = <<>> \/ path[Len(path)] = RootName THEN None
    ELSE Some(path[Len(path)])

\* Path::parent
PathParent(path) ==
    IF path = <<>> \/ path = <<RootName>> THEN None
    ELSE Some(SubSeq(path, 1, Len(path) - 1))

\* Mutant: the stem taken before the last '.', as Path::file_stem would.
RECURSIVE BaseNameLastDot(_)
BaseNameLastDot(filename) ==
    IF \A i \in 1..Len(filename) : filename[i] # "." THEN filename
    ELSE IF filename[Len(filename)] = "." THEN SubSeq(filename, 1, Len(filename) - 1)
    ELSE BaseNameLastDot(SubSeq(filename, 1, Len(filename) - 1))

\* filename.split('.').next(): the characters before the first '.'
RECURSIVE BaseName(_)
BaseName(filename) ==
    IF filename = <<>> \/ Head(filename) = "." THEN <<>>
    ELSE <<Head(filename)>> \o BaseName(Tail(filename))

\* The filesystem: the directories that exist and the files with their data.
EmptyFs == [dirs |-> {}, files |-> {}]

\* std::fs::create_dir_all: the directory and its missing ancestors.
CreateDirAll(fsys, dir) ==
    [fsys EXCEPT !.dirs = @ \cup {SubSeq(dir, 1, n) : n \in 1..Len(dir)}]

\* File::create followed by write_all: the file is created or truncated,
\* then holds `data`.
WriteFile(fsys, path, data) ==
    [fsys EXCEPT !.files = {f \in @ : f.path # path}
                           \cup {[path |-> path, data |-> data]}]

NoData == [fmt |-> "empty", pixels |-> <<>>]

\* What a conversion hands back: its result, the filesystem it leaves and
\* the background it composited over (None when it did not composite).
Outcome(res, fsys, bg) == [res |-> res, fs |-> fsys, bg |-> bg]

\* What the encoding stage yields: its result and the background used.
Encoded(res, bg) == [res |-> res, bg |-> bg]

\* The match on format.as_str() of process_and_save_image: Ok carries
\* <<ext, encoded_data>>.  `io` is how the environment behaves: "encode" makes
\* the image crate's write_to fail.
EncodeImage(pixels, format, rgb_color, is_batch, io) ==
    IF format \in {"jpg", "jpeg"} THEN
        IF HasAlphaPixels(pixels) THEN
            IF IsSome(rgb_color) THEN
                IF io = "encode" THEN Encoded(Err("Failed to write JPEG"), rgb_color)
                ELSE Encoded(Ok(<<ExtJpg, [fmt |-> "jpg",
                                   pixels |-> Composite(pixels, Unwrap(rgb_color))]>>),
                             rgb_color)
            ELSE IF is_batch THEN
                IF io = "encode" THEN Encoded(Err("Failed to write JPEG"), Some(White))
                ELSE Encoded(Ok(<<ExtJpg, [fmt |-> "jpg",
                                   pixels |-> Composite(pixels, White)]>>),
                             Some(White))
            ELSE Encoded(Err("Image has transparency. Please provide a background color."),
                         None)
        ELSE
            IF io = "encode" THEN Encoded(Err("Failed to write JPEG"), None)
            ELSE Encoded(Ok(<<ExtJpg, [fmt |-> "jpg", pixels |-> ToRgb8(pixels)]>>),
                         None)
    ELSE IF format = "png" THEN
        IF io = "encode" THEN Encoded(Err("Failed to write PNG"), None)
        ELSE Encoded(Ok(<<ExtPng, [fmt |-> "png", pixels |-> pixels]>>), None)
    ELSE IF format = "webp" THEN
        Encoded(Ok(<<ExtWebp, [fmt |-> "webp", pixels |-> pixels]>>), None)
    ELSE Encoded(Err("Unsupported output format"), None)

\* if is_batch { "{}.{}" } else { "{}_converted.{}" }
OutputFilename(filename, ext, is_batch) ==
    IF is_batch THEN BaseName(filename) \o <<".">> \o ext
    ELSE BaseName(filename) \o ConvertedSuffix \o <<".">> \o ext

\* Mutant: the output directory is created before the format is looked at.
ProcessAndSaveImageDirFirst(pixels, filename, format, rgb_color, output_dir, is_batch, io, fsys) ==
    LET enc == EncodeImage(pixels, format, rgb_color, is_batch, io)
        ext == Unwrap(enc.res.val)[1]
        data == Unwrap(enc.res.val)[2]
        withDir == CreateDirAll(fsys, output_dir)
        output_path == output_dir \o <<OutputFilename(filename, ext, is_batch)>>
    IN  IF io = "mkdir"
             THEN Outcome(Err("Failed to create output folder"), fsys, None)
        ELSE IF enc.res.kind # "Ok" THEN Outcome(enc.res, withDir, enc.bg)
        ELSE IF io = "create"
             THEN Outcome(Err("Failed to create output file"), withDir, enc.bg)
        ELSE IF io = "write"
             THEN Outcome(Err("Failed to write image"),
                          WriteFile(withDir, output_path, NoData), enc.bg)
        ELSE Outcome(Ok(output_path), WriteFile(withDir, output_path, data), enc.bg)

\* process_and_save_image.  `io` also chooses the failing filesystem call:
\* "mkdir" (create_dir_all), "create" (File::create), "write" (write_all).
ProcessAndSaveImage(pixels, filename, format, rgb_color, output_dir, is_batch, io, fsys) ==
    LET enc == EncodeImage(pixels, format, rgb_color, is_batch, io)
        ext == Unwrap(enc.res.val)[1]
        data == Unwrap(enc.res.val)[2]
        withDir == CreateDirAll(fsys, output_dir)
        output_path == output_dir \o <<OutputFilename(filename, ext, is_batch)>>
    IN  IF enc.res.kind # "Ok" THEN Outcome(enc.res, fsys, enc.bg)
        ELSE IF io = "mkdir"
             THEN Outcome(Err("Failed to create output folder"), fsys, enc.bg)
        ELSE IF io = "create"
             THEN Outcome(Err("Failed to create output file"), withDir, enc.bg)
        ELSE IF io = "write"
             THEN Outcome(Err("Failed to write image"),
                          WriteFile(withDir, output_path, NoData), enc.bg)
        ELSE Outcome(Ok(output_path), WriteFile(withDir, output_path, data), enc.bg)

\* A source file: whether its signature is recognised, whether its stream
\* decodes, and the pixels it decodes to.
SourceFile(recognized, intact, pixels) ==
    [recognized |-> recognized, intact |-> intact, pixels |-> pixels]

\* Mutant: convert_image passing is_batch = true.
ConvertImageAsBatch(file, filename, format, bg_color, desktop, io, fsys) ==
    LET color == ParseBgColor(bg_color)
    IN  IF color.kind # "Ok" THEN Outcome(color, fsys, None)
        ELSE IF ~file.recognized
             THEN Outcome(Err("Failed to guess image format"), fsys, None)
        ELSE IF ~file.intact THEN Outcome(Err("Failed to load image"), fsys, None)
        ELSE IF ~IsSome(desktop)
             THEN Outcome(Err("Failed to find Desktop directory"), fsys, None)
        ELSE ProcessAndSaveImage(file.pixels, filename, format, Unwrap(color.val),
                                 Unwrap(desktop) \o <<ImageConverterDir>>, TRUE, io, fsys)

\* convert_image(file_bytes, filename, format, bg_color); `desktop` is what
\* dirs::desktop_dir() returns.
ConvertImage(file, filename, format, bg_color, desktop, io, fsys) ==
    LET color == ParseBgColor(bg_color)
    IN  IF color.kind # "Ok" THEN Outcome(color, fsys, None)
        ELSE IF ~file.recognized
             THEN Outcome(Err("Failed to guess image format"), fsys, None)
        ELSE IF ~file.intact THEN Outcome(Err("Failed to load image"), fsys, None)
        ELSE IF ~IsSome(desktop)
             THEN Outcome(Err("Failed to find Desktop directory"), fsys, None)
        ELSE ProcessAndSaveImage(file.pixels, filename, format, Unwrap(color.val),
                                 Unwrap(desktop) \o <<ImageConverterDir>>, FALSE, io, fsys)

\* convert_image_from_path(file_path, format, bg_color); `file` is what is
\* stored at file_path.
ConvertImageFromPath(file_path, file, format, bg_color, io, fsys) ==
    LET color == ParseBgColor(bg_color)
        filename == FileName(file_path)
        source_dir == PathParent(file_path)
        source_folder_name == FileName(Unwrap(source_dir))
        output_dir == Unwrap(source_dir)
                      \o <<Unwrap(source_folder_name) \o ConvertedSuffix>>
    IN  IF color.kind # "Ok" THEN Outcome(color, fsys, None)
        ELSE IF ~IsSome(filename) THEN Outcome(Err("Invalid file path"), fsys, None)
        ELSE IF ~file.recognized \/ ~file.intact
             THEN Outcome(Err("Failed to open image"), fsys, None)
        ELSE IF ~IsSome(source_dir)
             THEN Outcome(Err("Could not find parent directory of the image"), fsys, None)
        ELSE IF ~IsSome(source_folder_name)
             THEN Outcome(Err("Could not get source folder name"), fsys, None)
        ELSE ProcessAndSaveImage(file.pixels, Unwrap(filename), format, Unwrap(color.val),
                                 output_dir, TRUE, io, fsys)

----------------------------------------------------------------------------
(* Initial values of the parts of the state.                               *)

IdleColor == hexInput = None /\ colorResult = NoResult
IdleBlend == srcPixel = None /\ bgColor = None /\ outPixel = None
IdleProg  == pTotal = 0 /\ pIdx = 0 /\ pProc = None /\ pRes = None

NoOp ==
    [mode |-> "none", name |-> <<>>, file |-> SourceFile(FALSE, FALSE, <<>>),
     format |-> "", bg_color |-> None, desktop |-> None, io |-> "ok",
     res |-> NoResult, bg |-> None, fsBefore |-> EmptyFs]
IdleConv == fs = EmptyFs /\ opCount = 0 /\ lastOp = NoOp

NoJob == [files |-> <<>>, format |-> "", bg_color |-> None]
IdleBatch ==
    /\ job = NoJob /\ cpc = "idle" /\ callerRet = NoResult
    /\ wpc = "unspawned" /\ widx = 0 /\ wresult = NoResult
    /\ events = <<>> /\ attempts = 0 /\ bfs = EmptyFs

----------------------------------------------------------------------------
(* SpecColor: a background-colour string is typed character by character   *)
(* and handed to the parsing block.                                        *)

MaxHexChars == 7
InputChars == {"#", "+", "1", "f", TwoByteChar}

\* bg_color arrives as Some(string), the string still empty here.
BeginInput ==
    /\ hexInput = None
    /\ hexInput' = Some(<<>>)
    /\ colorResult' = NoResult
    /\ UNCHANGED colorOthers

TypeChar ==
    /\ IsSome(hexInput)
    /\ Len(Unwrap(hexInput)) < MaxHexChars
    /\ \E c \in InputChars : hexInput' = Some(Append(Unwrap(hexInput), c))
    /\ colorResult' = NoResult
    /\ UNCHANGED colorOthers

ParseColor ==
    /\ colorResult = NoResult
    /\ colorResult' = ParseBgColor(hexInput)
    /\ UNCHANGED hexInput
    /\ UNCHANGED colorOthers

----------------------------------------------------------------------------
(* SpecBlend: one iteration of the blending loop on a pixel of the image.  *)

ChannelValues == 0..U8Max
GreenSamples == {0, 128, 255}
AlphaSamples == {0, 1, 127, 128, 254, 255}
BackgroundSamples == {White, <<0, 0, 0>>, <<18, 52, 86>>}

\* The loop reaches a pixel of rgba_img; `background` holds the colour there.
LoadPixel ==
    /\ srcPixel = None
    /\ \E r \in ChannelValues, g \in GreenSamples, a \in AlphaSamples :
           srcPixel' = Some(<<r, g, U8Max - r, a>>)
    /\ \E c \in BackgroundSamples : bgColor' = Some(c)
    /\ outPixel' = None
    /\ UNCHANGED blendOthers

\* The loop body: the pixel of `background` is overwritten with the blend.
BlendStep ==
    /\ IsSome(srcPixel)
    /\ outPixel = None
    /\ outPixel' = Some(BlendPixel(Unwrap(srcPixel), Unwrap(bgColor)))
    /\ UNCHANGED <<srcPixel, bgColor>>
    /\ UNCHANGED blendOthers

----------------------------------------------------------------------------
(* SpecProgress: the progress value of the worker loop, for one job.       *)

MaxTotal == 100

\* let total_files = job.files.len();
StartJob ==
    /\ pTotal = 0
    /\ \E n \in 1..MaxTotal : pTotal' = n
    /\ UNCHANGED <<pIdx, pProc, pRes>>
    /\ UNCHANGED progOthers

\* One iteration: `progress` is computed once and carried by the
\* `processing` payload and by the result payload.
ProgressStep ==
    /\ pIdx < pTotal
    /\ LET progress == Progress(pIdx, pTotal)
       IN  pProc' = Some(progress) /\ pRes' = Some(progress)
    /\ pIdx' = pIdx + 1
    /\ UNCHANGED pTotal
    /\ UNCHANGED progOthers

----------------------------------------------------------------------------
(* SpecConvert: conversions requested one after another, in single mode    *)
(* (convert_image) and in batch mode (convert_image_from_path), on one     *)
(* filesystem.                                                             *)

MaxOps == 2

PhotoJpg == <<"p", "h", "o", "t", "o", ".", "j", "p", "g">>
DottedName == <<"a", ".", "b", ".", "c">>
DirA == <<"a">>
DirB == <<"b">>
DesktopDir == <<RootName, <<"h", "o", "m", "e">>, <<"D", "e", "s", "k", "t", "o", "p">>>>

OpaqueImage == SourceFile(TRUE, TRUE, <<<<10, 20, 30, 255>>>>)
TransparentImage == SourceFile(TRUE, TRUE, <<<<10, 20, 30, 128>>, <<0, 0, 0, 0>>>>)
TruncatedImage == SourceFile(TRUE, FALSE, <<>>)
UnknownBytes == SourceFile(FALSE, FALSE, <<>>)

SourceFiles == {OpaqueImage, TransparentImage, TruncatedImage, UnknownBytes}
StoredFiles == {OpaqueImage, TransparentImage, TruncatedImage}
Filenames == {PhotoJpg, DottedName}
FilePaths == {<<RootName, DirA, DirB, PhotoJpg>>, <<RootName, PhotoJpg>>}
Formats == {"jpg", "jpeg", "png", "webp", "gif"}
ValidColor == <<"#", "1", "f", "1", "f", "1", "f">>
ShortColor == <<"1", "f">>
BgColors == {None, Some(ValidColor), Some(ShortColor)}
Desktops == {None, Some(DesktopDir)}
IoModes == {"ok", "mkdir", "write"}

Record(mode, name, file, format, bg_color, desktop, io, out) ==
    /\ fs' = out.fs
    /\ opCount' = opCount + 1
    /\ UNCHANGED convOthers
    /\ lastOp' = [mode |-> mode, name |-> name, file |-> file,
                  format |-> format, bg_color |-> bg_color, desktop |-> desktop,
                  io |-> io, res |-> out.res, bg |-> out.bg, fsBefore |-> fs]

DoConvertImage ==
    /\ lastOp = NoOp
    /\ opCount < MaxOps
    /\ \E file \in SourceFiles, filename \in Filenames, format \in Formats,
          bg_color \in BgColors, desktop \in Desktops, io \in IoModes :
           Record("single", filename, file, format, bg_color, desktop, io,
                  ConvertImage(file, filename, format, bg_color, desktop, io, fs))

DoConvertImageFromPath ==
    /\ lastOp = NoOp
    /\ opCount < MaxOps
    /\ \E file \in StoredFiles, file_path \in FilePaths, format \in Formats,
          bg_color \in BgColors, io \in IoModes :
           Record("batch", file_path, file, format, bg_color, None, io,
                  ConvertImageFromPath(file_path, file, format, bg_color, io, fs))

\* The command's result has gone back to the frontend; the next request may
\* come.
ResultReturned ==
    /\ lastOp # NoOp
    /\ lastOp' = NoOp
    /\ UNCHANGED <<fs, opCount>>
    /\ UNCHANGED convOthers

----------------------------------------------------------------------------
(* SpecBatch: convert_all_images.  The caller spawns the worker thread and *)
(* returns; the worker runs the loop over job.files.                       *)

MaxFiles == 3

BadPng == <<"b", "a", "d", ".", "p", "n", "g">>
BatchPaths == {<<RootName, DirA, DirB, PhotoJpg>>, <<RootName, DirA, DirB, BadPng>>,
               <<RootName, DirA, DirB, DottedName>>}
\* What the disk holds at a path of the job.
Stored(path) ==
    IF path[Len(path)] = PhotoJpg THEN TransparentImage
    ELSE IF path[Len(path)] = BadPng THEN TruncatedImage
    ELSE OpaqueImage

BatchFormats == {"jpg", "gif"}
SixCharHashColor == <<"#", "1", "f", "1", "f", "1">>
BatchBgColors == {None, Some(ValidColor), Some(ShortColor), Some(SixCharHashColor)}
BatchIoModes == {"ok", "mkdir"}

RECURSIVE SeqsUpTo(_, _)
SeqsUpTo(S, n) ==
    IF n = 0 THEN {<<>>}
    ELSE LET shorter == SeqsUpTo(S, n - 1)
         IN  shorter \cup {Append(q, x) : q \in shorter, x \in S}

Payload(status, file, detail, progress) ==
    [status |-> status, file |-> file, detail |-> detail, progress |-> progress]

\* The command is invoked with a job; thread::spawn starts the worker.
Invoke ==
    /\ cpc = "idle"
    /\ \E files \in SeqsUpTo(BatchPaths, MaxFiles), format \in BatchFormats,
          bg_color \in BatchBgColors :
           job' = [files |-> files, format |-> format, bg_color |-> bg_color]
    /\ cpc' = "spawned"
    /\ wpc' = "loop"
    /\ UNCHANGED <<callerRet, widx, wresult, events, attempts, bfs>>
    /\ UNCHANGED batchOthers

\* Mutant: the caller joins the worker and reports a failed file.
CallerReturnAfterJoin ==
    /\ cpc = "spawned"
    /\ wpc \in {"done", "panicked"}
    /\ cpc' = "returned"
    /\ callerRet' = IF \E k \in 1..Len(events) : events[k].status = "error"
                    THEN Err("conversion failed") ELSE Ok("unit")
    /\ UNCHANGED <<job, wpc, widx, wresult, events, attempts, bfs>>
    /\ UNCHANGED batchOthers

\* Ok(()) // Return immediately to unblock the frontend
CallerReturn ==
    /\ cpc = "spawned"
    /\ cpc' = "returned"
    /\ callerRet' = Ok("unit")
    /\ UNCHANGED <<job, wpc, widx, wresult, events, attempts, bfs>>
    /\ UNCHANGED batchOthers

\* app.emit(..).unwrap(): the payload is delivered and the worker goes on to
\* `next`, or emit returns Err and unwrap panics the worker thread.
Emit(payload, next, nextIdx) ==
    /\ attempts' = attempts + 1
    /\ \/ /\ events' = Append(events, payload)
          /\ wpc' = next
          /\ widx' = nextIdx
       \/ /\ wpc' = "panicked"
          /\ UNCHANGED <<events, widx>>
    /\ UNCHANGED <<job, cpc, callerRet, wresult, bfs>>
    /\ UNCHANGED batchOthers

\* The head of the loop body: progress, file_name, the "processing" event.
EmitProcessing ==
    /\ wpc = "loop"
    /\ widx < Len(job.files)
    /\ Emit(Payload("processing", widx + 1, NoResult, Progress(widx, Len(job.files))),
            "convert", widx)

\* let result = convert_image_from_path(..): a panic in it unwinds the worker.
ConvertFile ==
    /\ wpc = "convert"
    /\ \E io \in BatchIoModes :
         LET path == job.files[widx + 1]
             out == ConvertImageFromPath(path, Stored(path), job.format,
                                         job.bg_color, io, bfs)
         IN  /\ bfs' = out.fs
             /\ IF out.res.kind = "Panic"
                THEN wpc' = "panicked" /\ UNCHANGED wresult
                ELSE wpc' = "result" /\ wresult' = out.res
    /\ UNCHANGED <<job, cpc, callerRet, widx, events, attempts>>
    /\ UNCHANGED batchOthers

\* match result { Ok(..) => emit "success", Err(..) => emit "error" }
EmitResult ==
    /\ wpc = "result"
    /\ Emit(Payload(IF wresult.kind = "Ok" THEN "success" ELSE "error", widx + 1,
                    wresult, Progress(widx, Len(job.files))),
            "loop", widx + 1)

\* After the loop: the final "complete" event, then the thread ends.
EmitComplete ==
    /\ wpc = "loop"
    /\ widx = Len(job.files)
    /\ Emit(Payload("complete", 0, NoResult, Percent), "done", widx)

----------------------------------------------------------------------------
(* Specifications.  Every part starts idle; a specification runs the       *)
(* actions of one part.                                                    *)

Init == IdleColor /\ IdleBlend /\ IdleProg /\ IdleConv /\ IdleBatch

NextColor == BeginInput \/ TypeChar \/ ParseColor
SpecColor == Init /\ [][NextColor]_vars

NextBlend == LoadPixel \/ BlendStep
SpecBlend == Init /\ [][NextBlend]_vars

NextProgress == StartJob \/ ProgressStep
SpecProgress == Init /\ [][NextProgress]_vars

NextConvert == DoConvertImage \/ DoConvertImageFromPath \/ ResultReturned
SpecConvert == Init /\ [][NextConvert]_vars

Next ==
    \/ Invoke
    \/ CallerReturn
    \/ EmitProcessing
    \/ ConvertFile
    \/ EmitResult
    \/ EmitComplete
Spec == Init /\ [][Next]_vars

----------------------------------------------------------------------------
(* Properties of the batch worker (Spec).                                  *)

\* The worker thread has ended, by returning or by a panic.
WorkerEnded == wpc \in {"done", "panicked"}

OrderedEvents(ev, n) ==
    /\ Len(ev) = 2 * n + 1
    /\ \A k \in 1..n :
         /\ ev[2 * k - 1].status = "processing" /\ ev[2 * k - 1].file = k
         /\ ev[2 * k].status \in {"success", "error"} /\ ev[2 * k].file = k
    /\ ev[2 * n + 1].status = "complete"

\* Every emit so far delivered its payload.
AllDelivered == attempts = Len(events)

\* C1: once the worker of a batch of N files has ended, the events it emitted
\* are exactly 2N+1: for each file in input order a `processing` event
\* followed by that file's `success` or `error`, then one `complete`.  (Stated
\* for the runs in which the sink took every payload.)
C1_EventSequence ==
    (WorkerEnded /\ AllDelivered) => OrderedEvents(events, Len(job.files))

\* C2: a batch that was started reaches its terminal state: when the worker
\* has ended every file was attempted and the last event is `complete` with
\* progress 100, whichever files failed.  (Stated for the runs in which the
\* sink took every payload.)
C2_ReachesComplete ==
    (WorkerEnded /\ AllDelivered) =>
        /\ widx = Len(job.files)
        /\ events # <<>>
        /\ events[Len(events)].status = "complete"
        /\ events[Len(events)].progress = Percent

\* C3: an emit that fails to deliver its payload does not abort the batch:
\* the worker is still running, or ended normally, after it.
C3_EmitFailureTolerated == attempts > Len(events) => wpc # "panicked"

\* C8: convert_all_images does not wait for the worker: once the thread is
\* spawned the caller can return whatever the worker has done, and what it
\* returns is Ok(()) for every job.
C8_NonBlockingDispatch ==
    /\ cpc = "spawned" => ENABLED CallerReturn
    /\ cpc = "returned" => callerRet = Ok("unit")
    /\ cpc # "returned" => callerRet = NoResult

\* C8 witness: the caller has Ok(()) in hand while the worker of a non-empty
\* job has not called emit yet.
C8_ReturnedBeforeFirstEvent ==
    /\ cpc = "returned" /\ callerRet = Ok("unit")
    /\ Len(job.files) > 0
    /\ wpc = "loop" /\ widx = 0 /\ attempts = 0 /\ events = <<>>

----------------------------------------------------------------------------
(* Properties of the progress value (SpecProgress).                        *)

\* The file the last iteration handled, counted from 0.
LastIndex == pIdx - 1
ExactFloor(i, total) == (Percent * (i + 1)) \div total
NearestInt(i, total) == (2 * Percent * (i + 1) + total) \div (2 * total)

\* C4 as stated: both payloads of file i carry round((i+1)/total*100); the
\* values are in 0..100, non-decreasing, and the last file reports 100.
C4_ProgressRounded ==
    IsSome(pProc) =>
        /\ pProc = pRes
        /\ Unwrap(pProc) = NearestInt(LastIndex, pTotal)
        /\ Unwrap(pProc) \in 0..Percent
        /\ LastIndex = pTotal - 1 => Unwrap(pProc) = Percent

ThreeFiles == <<33, 66, 100>>

\* C4 amended: both payloads of file i carry (i+1)/total*100 computed in
\* single precision and truncated: floor((i+1)*100/total), or one less where
\* that quotient is a whole number and the f32 product falls just below it.
\* A 3-file batch reports 33, 66, 100; the values are in 0..100,
\* non-decreasing in i, and the last file reports 100.
C4_ProgressTruncated ==
    IsSome(pProc) =>
        LET p == Unwrap(pProc)
            fl == ExactFloor(LastIndex, pTotal)
        IN  /\ pProc = pRes
            /\ p \in {fl, fl - 1}
            /\ (Percent * (LastIndex + 1)) % pTotal # 0 => p = fl
            /\ p \in 0..Percent
            /\ LastIndex = pTotal - 1 => p = Percent
            /\ LastIndex > 0 => Progress(LastIndex - 1, pTotal) <= p
            /\ pTotal = Len(ThreeFiles) => p = ThreeFiles[LastIndex + 1]

\* C4 witness: the second file of three has reported 66.
C4_SecondOfThree == pTotal = 3 /\ pIdx = 2 /\ pProc = Some(66) /\ pRes = Some(66)

----------------------------------------------------------------------------
(* Properties of the colour parsing (SpecColor).                           *)

WellFormedHex(str) ==
    \/ Len(str) = 6 /\ \A i \in 1..6 : IsHexDigit(str[i])
    \/ Len(str) = 7 /\ str[1] = "#" /\ \A i \in 2..7 : IsHexDigit(str[i])

BytePairs(str) ==
    LET d == IF Len(str) = 7 THEN Tail(str) ELSE str
    IN  <<16 * HexValue(d[1]) + HexValue(d[2]),
          16 * HexValue(d[3]) + HexValue(d[4]),
          16 * HexValue(d[5]) + HexValue(d[6])>>

\* C5: a string of 6 hex digits, or '#' and 6 hex digits, parses to the RGB
\* triple of its byte pairs; every other supplied string yields an
\* invalid-colour error value: no colour, no panic.
C5_ColorParsing ==
    (colorResult # NoResult /\ IsSome(hexInput)) =>
        IF WellFormedHex(Unwrap(hexInput))
        THEN colorResult = Ok(Some(BytePairs(Unwrap(hexInput))))
        ELSE /\ colorResult.kind = "Err"
             /\ colorResult.msg \in {"Invalid hex color format", "Invalid hex color"}

----------------------------------------------------------------------------
(* Properties of the blending (SpecBlend).                                 *)

\* C9: over white a pixel with alpha 0 becomes white; a pixel with alpha 255
\* keeps its RGB over any background; a pixel with alpha 128 lands, in each
\* channel, within 1 of the midpoint (bg + src) / 2.
C9_BlendValues ==
    IsSome(outPixel) =>
        LET p == Unwrap(srcPixel)
            bg == Unwrap(bgColor)
            o == Unwrap(outPixel)
        IN  /\ (p[4] = 0 /\ bg = White) => o = White
            /\ p[4] = U8Max => o = <<p[1], p[2], p[3]>>
            /\ p[4] = 128 => \A c \in 1..3 : 2 * o[c] - (bg[c] + p[c]) \in -2..2

----------------------------------------------------------------------------
(* Properties of one conversion (SpecConvert).                             *)

MissingBackground == "Image has transparency. Please provide a background color."
SupportedTags == {"png", "jpg", "jpeg", "webp"}

\* The request gets as far as process_and_save_image: the colour parses, the
\* image decodes and the output directory can be named.
ReachesProcessing(op) ==
    /\ op.mode # "none"
    /\ ParseBgColor(op.bg_color).kind = "Ok"
    /\ op.file.recognized /\ op.file.intact
    /\ op.mode = "single" => IsSome(op.desktop)
    /\ op.mode = "batch" => (Len(op.name) >= 3 /\ op.name[1] = RootName)

WrittenData(fsys, path) == (CHOOSE f \in fsys.files : f.path = path).data

ValidColorRgb == <<31, 31, 31>>
TransparentOverWhite == <<<<132, 137, 142>>, <<255, 255, 255>>>>
TransparentOverValidColor == <<<<20, 25, 30>>, <<31, 31, 31>>>>

\* C6: a JPEG target and an image with a pixel of alpha < 255: a supplied
\* background is the one composited over; with none supplied single mode
\* fails with the missing-background error, and batch mode composites over
\* white and succeeds (when the filesystem lets it write).
C6_BackgroundResolution ==
    (/\ ReachesProcessing(lastOp)
     /\ lastOp.format \in {"jpg", "jpeg"}
     /\ HasAlphaPixels(lastOp.file.pixels)) =>
        /\ lastOp.bg_color = Some(ValidColor) =>
             /\ lastOp.bg = Some(ValidColorRgb)
             /\ lastOp.io = "ok" => lastOp.res.kind = "Ok"
             /\ (lastOp.res.kind = "Ok" /\ lastOp.file = TransparentImage) =>
                  WrittenData(fs, Unwrap(lastOp.res.val)).pixels = TransparentOverValidColor
        /\ (lastOp.bg_color = None /\ lastOp.mode = "single") =>
             /\ lastOp.res = Err(MissingBackground)
             /\ lastOp.bg = None
        /\ (lastOp.bg_color = None /\ lastOp.mode = "batch") =>
             /\ lastOp.bg = Some(White)
             /\ lastOp.io = "ok" => lastOp.res.kind = "Ok"
             /\ lastOp.res.msg # MissingBackground
             /\ (lastOp.res.kind = "Ok" /\ lastOp.file = TransparentImage) =>
                  WrittenData(fs, Unwrap(lastOp.res.val)).pixels = TransparentOverWhite

\* C6 witness: batch mode has written the transparent image over white.
C6_BatchDefaultsToWhite ==
    /\ lastOp.mode = "batch" /\ lastOp.bg_color = None /\ lastOp.format = "jpg"
    /\ lastOp.file = TransparentImage
    /\ lastOp.res.kind = "Ok" /\ lastOp.bg = Some(White)

FirstDot(name) ==
    IF \E i \in 1..Len(name) : name[i] = "."
    THEN CHOOSE i \in 1..Len(name) : name[i] = "." /\ \A j \in 1..(i - 1) : name[j] # "."
    ELSE Len(name) + 1
Stem(name) == SubSeq(name, 1, FirstDot(name) - 1)
TargetExt(format) ==
    IF format \in {"jpg", "jpeg"} THEN ExtJpg
    ELSE IF format = "png" THEN ExtPng ELSE ExtWebp

SinglePath(op) ==
    Unwrap(op.desktop)
    \o <<ImageConverterDir>>
    \o <<Stem(op.name) \o ConvertedSuffix \o <<".">> \o TargetExt(op.format)>>

\* The batch file's own name and the folder holding it.
OwnName(op) == op.name[Len(op.name)]
FolderName(op) == op.name[Len(op.name) - 1]
BatchFile(op) == Stem(OwnName(op)) \o <<".">> \o TargetExt(op.format)

\* C7 as stated: single mode returns <desktop>/ImageConverter/
\* <stem>_converted.<ext>; batch mode on /a/b/photo.jpg returns
\* /a/b_converted/photo.<ext>, the derived directory beside the source folder.
C7_OutputPathBeside ==
    lastOp.res.kind = "Ok" =>
        /\ lastOp.mode = "single" => Unwrap(lastOp.res.val) = SinglePath(lastOp)
        /\ lastOp.mode = "batch" =>
             Unwrap(lastOp.res.val) =
                 SubSeq(lastOp.name, 1, Len(lastOp.name) - 2)
                 \o <<FolderName(lastOp) \o ConvertedSuffix>> \o <<BatchFile(lastOp)>>

\* C7 amended: single mode returns <desktop>/ImageConverter/
\* <stem>_converted.<ext>; batch mode on /a/b/photo.jpg returns
\* /a/b/b_converted/photo.<ext>: the derived directory
\* <source-folder-name>_converted lies inside the source folder.  The file
\* named by the returned path exists.
C7_OutputPathInside ==
    lastOp.res.kind = "Ok" =>
        /\ lastOp.mode = "single" => Unwrap(lastOp.res.val) = SinglePath(lastOp)
        /\ lastOp.mode = "batch" =>
             Unwrap(lastOp.res.val) =
                 SubSeq(lastOp.name, 1, Len(lastOp.name) - 1)
                 \o <<FolderName(lastOp) \o ConvertedSuffix>> \o <<BatchFile(lastOp)>>
        /\ \E f \in fs.files : f.path = Unwrap(lastOp.res.val)

\* C7 witness: /a/b/photo.jpg converted to png in batch mode.
C7_BatchPhotoToPng ==
    /\ lastOp.mode = "batch" /\ lastOp.name = <<RootName, DirA, DirB, PhotoJpg>>
    /\ lastOp.format = "png"
    /\ lastOp.res = Ok(<<RootName, DirA, DirB,
                         <<"b", "_", "c", "o", "n", "v", "e", "r", "t", "e", "d">>,
                         <<"p", "h", "o", "t", "o", ".", "p", "n", "g">>>>)

PreWriteErrors ==
    {"Unsupported output format", "Invalid hex color format", "Invalid hex color",
     "Failed to guess image format", "Failed to load image", "Failed to open image",
     MissingBackground}

\* C10: a target tag other than png, jpg, jpeg, webp yields the
\* unsupported-format error; when that error, an invalid-colour error, a
\* decode failure or the missing-background error is returned, the
\* filesystem is what it was before the call.
C10_FailureLeavesFilesystem ==
    lastOp.mode # "none" =>
        /\ (ReachesProcessing(lastOp) /\ lastOp.format \notin SupportedTags) =>
             lastOp.res = Err("Unsupported output format")
        /\ (lastOp.res.kind = "Err" /\ lastOp.res.msg \in PreWriteErrors) =>
             fs = lastOp.fsBefore

\* C10 witness: an unsupported tag is refused while an earlier output exists.
C10_UnsupportedAfterOutput ==
    /\ lastOp.res = Err("Unsupported output format")
    /\ lastOp.fsBefore.files # {}
    /\ fs = lastOp.fsBefore

====
